---- MODULE Spec2Model ----
(***************************************************************************)
(* A model of nque's FifoQueueLmdb (src/nque/fifo.py): a persistent FIFO   *)
(* queue kept in one LMDB database.  Every public operation runs in one    *)
(* LMDB write transaction; LMDB admits one writer at a time                *)
(* (fifo.py:33-35), so an operation is one atomic step of the model and    *)
(* concurrency is the interleaving of whole operations of several          *)
(* producers and consumers.                                                *)
(*                                                                         *)
(* The database is a function from keys to values.  Keys and values are    *)
(* byte strings, modelled as sequences of one-character strings.           *)
(***************************************************************************)
EXTENDS Integers, Sequences, FiniteSets, TLC

(***************************************************************************)
(* Sizes.  ITEMS_MAX is the class attribute of fifo.py:42 (1_000 there),   *)
(* instantiated small here; MaxItems caps the number of items admitted in  *)
(* one behaviour.  ITEM_MAX is the class attribute of fifo.py:39 (20 KiB   *)
(* there), in bytes.                                                       *)
(***************************************************************************)
ITEMS_MAX == 2

ITEM_MAX == 2

MaxItems == 4

Consumers == {"c1", "c2"}

(***************************************************************************)
(* Byte strings.                                                           *)
(***************************************************************************)
DigitChars == <<"0", "1", "2", "3", "4", "5", "6", "7", "8", "9">>

\* The value txn.get returns for an absent key; no byte string equals it.
None == <<"<None>">>

\* str(n).encode() for n >= 0: the decimal digits, most significant first.
RECURSIVE str(_)
str(n) ==
    IF n < 10 THEN <<DigitChars[n + 1]>>
    ELSE str(n \div 10) \o <<DigitChars[(n % 10) + 1]>>

DigitValue(c) == CHOOSE v \in 0..9 : DigitChars[v + 1] = c

\* int(s.decode()) for a string of decimal digits.
RECURSIVE int(_)
int(s) ==
    IF Len(s) = 0 THEN 0
    ELSE 10 * int(SubSeq(s, 1, Len(s) - 1)) + DigitValue(s[Len(s)])

\* s.zfill(width): pad with "0" on the left up to width.
RECURSIVE zfill(_, _)
zfill(s, width) == IF Len(s) >= width THEN s ELSE zfill(<<"0">> \o s, width)

RECURSIVE Pow10(_)
Pow10(k) == IF k = 0 THEN 1 ELSE 10 * Pow10(k - 1)

\* math.ceil(math.log10(n)) for n >= 1: the least k with 10^k >= n.
CeilLog10(n) == CHOOSE k \in 0..n : Pow10(k) >= n /\ \A j \in 0..(k - 1) : Pow10(j) < n

(***************************************************************************)
(* The LMDB transaction interface, on a database value d.                  *)
(***************************************************************************)
TxnGet(d, key, default) == IF key \in DOMAIN d THEN d[key] ELSE default

TxnPut(d, key, value) == [k \in (DOMAIN d) \cup {key} |-> IF k = key THEN value ELSE d[k]]

TxnDelete(d, key) == [k \in (DOMAIN d) \ {key} |-> d[k]]

\* env.stat()['entries']
StatEntries(d) == Cardinality(DOMAIN d)

(***************************************************************************)
(* FifoQueueLmdb                                                           *)
(***************************************************************************)
START_KEY == <<"s", "t", "a", "r", "t">>

END_KEY == <<"e", "n", "d">>

\* self._zfill, set in __init__
_zfill == CeilLog10(ITEMS_MAX)

_make_db_key(key) == zfill(str(key), _zfill)

_get_next_item_number(previous_item_num) ==
    IF previous_item_num = ITEMS_MAX - 1 THEN 0 ELSE previous_item_num + 1

_get_first_item_number(d) == int(TxnGet(d, START_KEY, <<"0">>))

_put_first_item_number(item_num, d) == TxnPut(d, START_KEY, str(item_num))

_get_last_item_number(d) == int(TxnGet(d, END_KEY, <<"0">>))

_put_last_item_number(item_num, d) == TxnPut(d, END_KEY, str(item_num))

_validate_arg_items_count(items_count) ==
    IF items_count <= 0 THEN "ArgumentError"
    ELSE IF items_count > ITEMS_MAX THEN "ArgumentError"
    ELSE "none"

\* An element of a batch that is not a bytes object.
NotBytes == <<"<not bytes>">>

\* isinstance(i, bytes)
IsBytes(i) == i # NotBytes

\* The checks of put() on the batch without the check of the items' sizes.
_validate_arg_items_no_size(items) ==
    IF Len(items) = 0 THEN "ArgumentError"
    ELSE IF Len(items) > ITEMS_MAX THEN "ArgumentError"
    ELSE IF ~(\A i \in 1..Len(items) : IsBytes(items[i])) THEN "ArgumentError"
    ELSE "none"

\* The checks of put() on the batch: empty, too long, an element that is
\* not bytes, an item longer than ITEM_MAX.
_validate_arg_items(items) ==
    IF Len(items) = 0 THEN "ArgumentError"
    ELSE IF Len(items) > ITEMS_MAX THEN "ArgumentError"
    ELSE IF ~(\A i \in 1..Len(items) : IsBytes(items[i])) THEN "ArgumentError"
    ELSE IF ~(\A i \in 1..Len(items) : Len(items[i]) <= ITEM_MAX) THEN "ArgumentError"
    ELSE "none"


\* _permit_put with < for <=: the last free slot is never granted.
_permit_put_strict(items, d) ==
    LET special_keys_count ==
            (IF TxnGet(d, START_KEY, None) # None THEN 1 ELSE 0)
          + (IF TxnGet(d, END_KEY, None) # None THEN 1 ELSE 0)
        current_items_count == StatEntries(d) - special_keys_count
        future_items_count == Len(items) + current_items_count
    IN  future_items_count < ITEMS_MAX

\* _permit_put that takes every entry of the database for an item.
_permit_put_counts_reserved(items, d) ==
    Len(items) + StatEntries(d) <= ITEMS_MAX

\* _permit_put: the live item count is the entry count less the reserved keys.
_permit_put(items, d) ==
    LET special_keys_count ==
            (IF TxnGet(d, START_KEY, None) # None THEN 1 ELSE 0)
          + (IF TxnGet(d, END_KEY, None) # None THEN 1 ELSE 0)
        current_items_count == StatEntries(d) - special_keys_count
        future_items_count == Len(items) + current_items_count
    IN  future_items_count <= ITEMS_MAX

\* The for loop of _put: store each item at the running item_num.
RECURSIVE PutLoop(_, _, _)
PutLoop(d, item_num, items) ==
    IF Len(items) = 0 THEN [db |-> d, item_num |-> item_num]
    ELSE PutLoop(TxnPut(d, _make_db_key(item_num), Head(items)),
                 _get_next_item_number(item_num), Tail(items))

\* The for loop of _put with item numbers that never start a new cycle.
RECURSIVE PutLoopNoCycle(_, _, _)
PutLoopNoCycle(d, item_num, items) ==
    IF Len(items) = 0 THEN [db |-> d, item_num |-> item_num]
    ELSE PutLoopNoCycle(TxnPut(d, _make_db_key(item_num), Head(items)),
                        item_num + 1, Tail(items))

\* _put as an unbounded log: no capacity check, item numbers only grow.
_put_unbounded(d, items) ==
    LET r == PutLoopNoCycle(d, _get_last_item_number(d), items)
    IN  [db |-> _put_last_item_number(r.item_num, r.db), exc |-> "none"]

\* _put whose refused batch is not rolled back: the capacity check runs
\* after the first item was written and the write survives TryLater.
_put_no_abort(d, items) ==
    IF _permit_put(items, d)
    THEN LET r == PutLoop(d, _get_last_item_number(d), items)
         IN  [db |-> _put_last_item_number(r.item_num, r.db), exc |-> "none"]
    ELSE [db |-> TxnPut(d, _make_db_key(_get_last_item_number(d)), Head(items)),
          exc |-> "TryLater"]

\* _put that does not store the new last item number.
_put_keeps_end(d, items) ==
    IF _permit_put(items, d)
    THEN [db |-> PutLoop(d, _get_last_item_number(d), items).db, exc |-> "none"]
    ELSE [db |-> d, exc |-> "TryLater"]

\* _put without the capacity check: the items are written from the last
\* item number on, whatever is stored there.
_put_unpermitted(d, items) ==
    LET r == PutLoop(d, _get_last_item_number(d), items)
    IN  [db |-> _put_last_item_number(r.item_num, r.db), exc |-> "none"]

\* _put: one write transaction; TryLater leaves the with block by an
\* exception, which aborts the transaction.
_put(d, items) ==
    IF _permit_put(items, d)
    THEN LET r == PutLoop(d, _get_last_item_number(d), items)
         IN  [db |-> _put_last_item_number(r.item_num, r.db), exc |-> "none"]
    ELSE [db |-> d, exc |-> "TryLater"]

\* The for loop of _pop: i iterations remain.
RECURSIVE PopLoop(_, _, _, _)
PopLoop(d, item_num, i, items) ==
    IF i = 0 THEN [db |-> d, item_num |-> item_num, items |-> items]
    ELSE LET key == _make_db_key(item_num)
             item == TxnGet(d, key, None)
         IN  IF item # None
             THEN PopLoop(TxnDelete(d, key), _get_next_item_number(item_num),
                          i - 1, Append(items, item))
             ELSE [db |-> d, item_num |-> item_num, items |-> items]

\* _pop that does not store the new first item number.
_pop_keeps_start(d, items_count) ==
    LET r == PopLoop(d, _get_first_item_number(d), items_count, <<>>)
    IN  [db |-> r.db, items |-> r.items]

\* _pop without txn.delete: the items are returned and the start advanced.
_pop_no_delete(d, items_count) ==
    LET r == PopLoop(d, _get_first_item_number(d), items_count, <<>>)
    IN  [db |-> _put_first_item_number(r.item_num, d), items |-> r.items]

_pop(d, items_count) ==
    LET r == PopLoop(d, _get_first_item_number(d), items_count, <<>>)
    IN  [db |-> _put_first_item_number(r.item_num, r.db), items |-> r.items]

\* The for loop of _get.
RECURSIVE GetLoop(_, _, _, _)
GetLoop(d, item_num, i, items) ==
    IF i = 0 THEN items
    ELSE LET key == _make_db_key(item_num)
             item == TxnGet(d, key, None)
         IN  IF item # None
             THEN GetLoop(d, _get_next_item_number(item_num), i - 1, Append(items, item))
             ELSE items

\* _get that stores the first item number as _pop and _remove do.
_get_puts_start(d, items_count) ==
    [db |-> _put_first_item_number(_get_first_item_number(d), d),
     items |-> GetLoop(d, _get_first_item_number(d), items_count, <<>>)]

\* _get whose loop runs range(items_count - 1).
_get_one_short(d, items_count) ==
    [db |-> d, items |-> GetLoop(d, _get_first_item_number(d), items_count - 1, <<>>)]

_get(d, items_count) ==
    [db |-> d, items |-> GetLoop(d, _get_first_item_number(d), items_count, <<>>)]

\* The for loop of _remove.
RECURSIVE RemoveLoop(_, _, _)
RemoveLoop(d, item_num, i) ==
    IF i = 0 THEN [db |-> d, item_num |-> item_num]
    ELSE LET key == _make_db_key(item_num)
         IN  IF TxnGet(d, key, None) # None
             THEN RemoveLoop(TxnDelete(d, key), _get_next_item_number(item_num), i - 1)
             ELSE [db |-> d, item_num |-> item_num]

\* The for loop of _remove with the item number advanced before the
\* presence test's break, so that it advances once more than it deletes.
RECURSIVE RemoveLoopAdvancing(_, _, _)
RemoveLoopAdvancing(d, item_num, i) ==
    IF i = 0 THEN [db |-> d, item_num |-> item_num]
    ELSE LET key == _make_db_key(item_num)
         IN  IF TxnGet(d, key, None) # None
             THEN RemoveLoopAdvancing(TxnDelete(d, key),
                                      _get_next_item_number(item_num), i - 1)
             ELSE [db |-> d, item_num |-> _get_next_item_number(item_num)]

_remove_advancing(d, items_count) ==
    LET r == RemoveLoopAdvancing(d, _get_first_item_number(d), items_count)
    IN  [db |-> _put_first_item_number(r.item_num, r.db)]

\* _remove without txn.delete: the first item number advances over the
\* items, which stay stored.
_remove_no_delete(d, items_count) ==
    LET r == RemoveLoop(d, _get_first_item_number(d), items_count)
    IN  [db |-> _put_first_item_number(r.item_num, d)]

_remove(d, items_count) ==
    LET r == RemoveLoop(d, _get_first_item_number(d), items_count)
    IN  [db |-> _put_first_item_number(r.item_num, r.db)]

\* put that runs the transaction before it looks at the argument.
put_validates_late(d, items) ==
    LET r == _put(d, items)
    IN  IF _validate_arg_items(items) # "none"
        THEN [db |-> r.db, exc |-> "ArgumentError"]
        ELSE r

\* The public methods: validate the argument, then run the transaction.
put(d, items) ==
    IF _validate_arg_items(items) # "none"
    THEN [db |-> d, exc |-> "ArgumentError"]
    ELSE _put(d, items)

get(d, items_count) ==
    IF _validate_arg_items_count(items_count) # "none"
    THEN [db |-> d, items |-> <<>>, exc |-> "ArgumentError"]
    ELSE LET r == _get(d, items_count) IN [db |-> r.db, items |-> r.items, exc |-> "none"]

remove(d, items_count) ==
    IF _validate_arg_items_count(items_count) # "none"
    THEN [db |-> d, exc |-> "ArgumentError"]
    ELSE [db |-> _remove(d, items_count).db, exc |-> "none"]

pop(d, items_count) ==
    IF _validate_arg_items_count(items_count) # "none"
    THEN [db |-> d, items |-> <<>>, exc |-> "ArgumentError"]
    ELSE LET r == _pop(d, items_count) IN [db |-> r.db, items |-> r.items, exc |-> "none"]

(***************************************************************************)
(* State.  db is the committed content of the LMDB database.  The other    *)
(* variables record what the callers have seen: putLog the items of all    *)
(* admitted put calls in commit order, deqLog the items deleted by remove  *)
(* and pop in commit order, popLog the items returned by pop in commit     *)
(* order, cons[c] what the get of consumer c returned that its remove has  *)
(* not followed yet, ret the last completed call with its outcome, and     *)
(* got[c] the items ever returned to c by get (recorded under              *)
(* SpecGetRemove only).                                                    *)
(***************************************************************************)
VARIABLES db, putLog, deqLog, popLog, cons, got, ret

vars == <<db, putLog, deqLog, popLog, cons, got, ret>>

\* The keys, values and number of the stored items (the reserved keys apart).
ItemKeys(d) == (DOMAIN d) \ {START_KEY, END_KEY}

ItemValues(d) == {d[k] : k \in ItemKeys(d)}

Count(d) == Cardinality(ItemKeys(d))

\* The items of set S in the order they were put.
InPutOrder(S, log) == SelectSeq(log, LAMBDA x : x \in S)

SeqToSet(s) == {s[i] : i \in 1..Len(s)}

\* The batch a producer puts: k fresh items, as the tests' str(i).encode().
Batch(k) == [i \in 1..k |-> str(Len(putLog) + i)]

BatchSizes == 0..(ITEMS_MAX + 1)

CountArgs == 0..(ITEMS_MAX + 1)

\* What cons[c] holds when consumer c has no get awaiting its remove.
NoGet == << <<"<NoGet>">> >>

\* A completed call: items is the batch of a put, the list a get or pop returned.
Call(op, items, exc) == [op |-> op, items |-> items, exc |-> exc]

Init ==
    /\ db = <<>>
    /\ putLog = <<>>
    /\ deqLog = <<>>
    /\ popLog = <<>>
    /\ cons = [c \in Consumers |-> NoGet]
    /\ got = [c \in Consumers |-> {}]
    /\ ret = Call("init", <<>>, "none")

\* some producer calls put(items) with a batch of k items
PutCall(k) ==
    LET items == Batch(k)
        r == put(db, items)
    IN  /\ db' = r.db
        /\ putLog' = IF r.exc = "none" THEN putLog \o items ELSE putLog
        /\ ret' = Call("put", items, r.exc)
        /\ UNCHANGED <<deqLog, popLog, cons, got>>

\* put, as long as the behaviour admits at most MaxItems items
Put(k) ==
    /\ put(db, Batch(k)).exc = "none" => Len(putLog) + k <= MaxItems
    /\ PutCall(k)

\* consumer c calls get(n); got is left to the caller of this definition
GetCall(c, n) ==
    LET r == get(db, n)
    IN  /\ db' = r.db
        /\ cons' = IF r.exc = "none"
                   THEN [cons EXCEPT ![c] = r.items]
                   ELSE cons
        /\ ret' = Call("get", r.items, r.exc)
        /\ UNCHANGED <<putLog, deqLog, popLog>>

\* consumer c calls get(n)
Get(c, n) == GetCall(c, n) /\ UNCHANGED got

\* consumer c calls remove(n)
Remove(c, n) ==
    LET r == remove(db, n)
        removed == InPutOrder(ItemValues(db) \ ItemValues(r.db), putLog)
    IN  /\ db' = r.db
        /\ deqLog' = deqLog \o removed
        /\ cons' = IF r.exc = "none" THEN [cons EXCEPT ![c] = NoGet] ELSE cons
        /\ ret' = Call("remove", <<>>, r.exc)
        /\ UNCHANGED <<putLog, popLog, got>>

\* some consumer calls pop(n)
Pop(n) ==
    LET r == pop(db, n)
        removed == InPutOrder(ItemValues(db) \ ItemValues(r.db), putLog)
    IN  /\ db' = r.db
        /\ deqLog' = deqLog \o removed
        /\ popLog' = popLog \o r.items
        /\ ret' = Call("pop", r.items, r.exc)
        /\ UNCHANGED <<putLog, cons, got>>

DoPut == \E k \in BatchSizes : Put(k)

DoGet == \E c \in Consumers, n \in CountArgs : Get(c, n)

DoRemove == \E c \in Consumers, n \in CountArgs : Remove(c, n)

DoPop == \E n \in CountArgs : Pop(n)

Next == DoPut \/ DoGet \/ DoRemove \/ DoPop

Spec == Init /\ [][Next]_vars

(***************************************************************************)
(* Vocabulary of the properties.                                           *)
(***************************************************************************)
Min(a, b) == IF a <= b THEN a ELSE b

Take(s, k) == SubSeq(s, 1, Min(k, Len(s)))

Drop(s, k) == SubSeq(s, k + 1, Len(s))

IsPrefix(s, t) == Len(s) <= Len(t) /\ Take(t, Len(s)) = s

NoDuplicates(s) == \A i, j \in 1..Len(s) : s[i] = s[j] => i = j

\* head and tail: the first item number and the next free item number
HeadOf(d) == _get_first_item_number(d)

TailOf(d) == _get_last_item_number(d)

\* The queue by the callers' history: the items put and not deleted since,
\* oldest first.
Pending == SelectSeq(putLog, LAMBDA x : x \notin SeqToSet(deqLog))

\* The queue as stored: the values at the Count(d) positions from the head
\* on (None where such a position holds no key).
Contents(d) ==
    [i \in 1..Count(d) |-> TxnGet(d, _make_db_key((HeadOf(d) + i - 1) % ITEMS_MAX), None)]

ValidCounts == 1..ITEMS_MAX

(***************************************************************************)
(* C1.  As claimed: the pop results, concatenated in commit order, are a   *)
(* prefix of the admitted put batches concatenated in commit order,        *)
(* whatever put, pop, get and remove calls were committed.                 *)
(***************************************************************************)
C1_PopsArePrefixOfPuts == IsPrefix(popLog, putLog)

\* C1, as amended: the items deleted by pop and remove, in commit order,
\* are a prefix of the put batches in commit order; the pop results are
\* deleted items, in that same order; and put(B) on an empty queue followed
\* by pop(len(B)) returns exactly B.
C1_DequeuedArePrefixOfPuts ==
    /\ IsPrefix(deqLog, putLog)
    /\ popLog = InPutOrder(SeqToSet(popLog), deqLog)

C1_PutThenPopReturnsBatch ==
    \A n \in ValidCounts :
        (/\ ret.op = "put" /\ ret.exc = "none"
         /\ Pending = ret.items
         /\ n = Len(ret.items)
         /\ Pop(n))
        => ret'.items = ret.items

C1_StrictFifo == [](C1_DequeuedArePrefixOfPuts) /\ [][C1_PutThenPopReturnsBatch]_vars

\* C1 witness: a pop returned items after a remove had deleted older ones
\* and the item numbers had started a new cycle.
C1_Witness ==
    /\ ret.op = "pop" /\ ret.items # <<>>
    /\ ~IsPrefix(popLog, putLog)
    /\ Len(putLog) > ITEMS_MAX

(***************************************************************************)
(* C2.  No item is returned by two pop calls, an item a pop returned is    *)
(* no longer stored, and once as many items were popped as were put every  *)
(* item put has been returned by exactly one pop.                          *)
(***************************************************************************)
C2_PopExactlyOnce ==
    /\ NoDuplicates(popLog)
    /\ SeqToSet(popLog) \subseteq SeqToSet(putLog)
    /\ SeqToSet(popLog) \cap ItemValues(db) = {}
    /\ Len(popLog) = Len(putLog) =>
           \A i \in 1..Len(putLog) :
               Cardinality({j \in 1..Len(popLog) : popLog[j] = putLog[i]}) = 1

\* C2 witness: every item put was popped, over more than one cycle of the
\* item numbers.
C2_Witness ==
    /\ ret.op = "pop"
    /\ Len(popLog) = Len(putLog)
    /\ Len(putLog) > ITEMS_MAX

(***************************************************************************)
(* C3.  A put either appends its whole batch behind the stored items and   *)
(* advances the tail by the batch length, or leaves the database as it     *)
(* was and raises; no part of a batch is ever stored alone.                *)
(***************************************************************************)
C3_PutStep(k) ==
    \/ /\ ret'.exc = "none"
       /\ Contents(db') = Contents(db) \o Batch(k)
       /\ Count(db') = Count(db) + k
       /\ TailOf(db') = (TailOf(db) + k) % ITEMS_MAX
       /\ HeadOf(db') = HeadOf(db)
    \/ /\ ret'.exc # "none"
       /\ db' = db

C3_PutAtomic == [][\A k \in BatchSizes : Put(k) => C3_PutStep(k)]_vars

\* C3 witness: a batch of several items was refused on a queue that holds
\* items and has free slots for a part of the batch only.
C3_Witness ==
    /\ ret.op = "put" /\ ret.exc = "TryLater"
    /\ Len(ret.items) > 1
    /\ Count(db) >= 1
    /\ Count(db) < ITEMS_MAX

(***************************************************************************)
(* C4.  The number of stored item keys never exceeds ITEMS_MAX.            *)
(***************************************************************************)
C4_CountAtMostItemsMax == Count(db) <= ITEMS_MAX

\* C4 witness: the queue is full after the item numbers started a new cycle.
C4_Witness ==
    /\ Count(db) = ITEMS_MAX
    /\ Len(putLog) > ITEMS_MAX
    /\ ret.op = "put" /\ ret.exc = "none"

(***************************************************************************)
(* C5.  A valid put of k items on a queue of c items is admitted exactly   *)
(* when c + k <= ITEMS_MAX, and is refused with TryLater otherwise.        *)
(***************************************************************************)
C5_PutStep(k) ==
    /\ ret'.exc \in {"none", "TryLater"}
    /\ ret'.exc = "none" <=> Count(db) + k <= ITEMS_MAX

C5_CapacityBoundary == [][\A k \in ValidCounts : Put(k) => C5_PutStep(k)]_vars

\* C5 witness: the queue was filled to exactly ITEMS_MAX items and the next
\* put, of one item, was refused.
C5_Witness ==
    /\ ret.op = "put" /\ ret.exc = "TryLater"
    /\ Len(ret.items) = 1
    /\ Count(db) = ITEMS_MAX

(***************************************************************************)
(* C6.  A get(n) with a valid n leaves the database as it was: head, tail, *)
(* the keys present (the reserved ones too) and every value; a second      *)
(* get(n) right after it returns the same list.                            *)
(***************************************************************************)
C6_GetStep(n) ==
    /\ db' = db
    /\ DOMAIN db' = DOMAIN db
    /\ get(db', n).items = ret'.items

C6_GetNeverMutates ==
    [][\A c \in Consumers, n \in ValidCounts : Get(c, n) => C6_GetStep(n)]_vars

\* C6 witness: a get returned items of a database that has no start key yet.
C6_Witness ==
    /\ ret.op = "get" /\ ret.items # <<>>
    /\ START_KEY \notin DOMAIN db

(***************************************************************************)
(* C7.  A get(n) with a valid n returns the min(n, count) oldest items in  *)
(* the order they were put, none twice, and raises nothing.                *)
(***************************************************************************)
C7_GetStep(n) ==
    /\ ret'.exc = "none"
    /\ ret'.items = Take(Pending, Min(n, Count(db)))
    /\ NoDuplicates(ret'.items)

C7_GetReturnsOldest ==
    [][\A c \in Consumers, n \in ValidCounts : Get(c, n) => C7_GetStep(n)]_vars

\* C7 witness: get(ITEMS_MAX) returned all the items of a full queue whose
\* head and tail coincide away from position 0.
C7_Witness ==
    /\ ret.op = "get"
    /\ Len(ret.items) = ITEMS_MAX
    /\ HeadOf(db) = TailOf(db)
    /\ HeadOf(db) > 0

(***************************************************************************)
(* C8.  A remove(n) with a valid n deletes the min(n, count) oldest items, *)
(* advances head by that number modulo ITEMS_MAX, keeps the other items in *)
(* order and raises nothing; on an empty queue head, tail and items stay   *)
(* and a get(1) that follows returns the empty list.                       *)
(***************************************************************************)
C8_RemoveStep(n) ==
    LET k == Min(n, Count(db))
    IN  /\ ret'.exc = "none"
        /\ deqLog' = deqLog \o Take(Pending, k)
        /\ Count(db') = Count(db) - k
        /\ Contents(db') = Drop(Contents(db), k)
        /\ HeadOf(db') = (HeadOf(db) + k) % ITEMS_MAX
        /\ TailOf(db') = TailOf(db)
        /\ Count(db) = 0 =>
               /\ ItemKeys(db') = ItemKeys(db)
               /\ get(db', 1).items = <<>>
               /\ get(db', 1).exc = "none"

C8_RemoveOldest ==
    [][\A c \in Consumers, n \in ValidCounts : Remove(c, n) => C8_RemoveStep(n)]_vars

\* C8 witness: a remove ran on a queue that was already empty, after the
\* item numbers had started a new cycle.
C8_Witness ==
    /\ ret.op = "remove"
    /\ Count(db) = 0
    /\ Len(deqLog) = Len(putLog)
    /\ Len(putLog) > ITEMS_MAX
    /\ cons = [c \in Consumers |-> NoGet]
    /\ HeadOf(db) > 0

(***************************************************************************)
(* The cycle of test_put_pop_cycle and test_put_get_remove_cycle: put one  *)
(* item, then consume one item by pop or by get and remove.  The tests run  *)
(* CycleLen iterations; the model runs one more cycle of the item numbers. *)
(***************************************************************************)
CycleLen == 2 * ITEMS_MAX

CycleBound == CycleLen + ITEMS_MAX

CyclePut ==
    /\ ret.op \in {"init", "pop", "remove"}
    /\ Len(putLog) < CycleBound
    /\ PutCall(1)

CyclePop ==
    /\ ret.op = "put"
    /\ Pop(1)

CycleGet ==
    /\ ret.op = "put"
    /\ \E c \in Consumers : Get(c, 1)

CycleRemove ==
    /\ ret.op = "get"
    /\ \E c \in Consumers : cons[c] # NoGet /\ Remove(c, 1)

CycleNext == CyclePut \/ CyclePop \/ CycleGet \/ CycleRemove

CycleSpec == Init /\ [][CycleNext]_vars

(***************************************************************************)
(* C9.  In every iteration of the cycle the put is admitted into the       *)
(* empty queue, the get or pop returns exactly the item just put, and the  *)
(* pop or remove leaves the queue empty with every item put so far         *)
(* consumed, also after head and tail have passed position ITEMS_MAX - 1.  *)
(***************************************************************************)
C9_Wraparound ==
    /\ ret.op = "put" =>
           /\ ret.exc = "none"
           /\ Count(db) = 1
           /\ Contents(db) = ret.items
           /\ ret.items = <<str(Len(putLog))>>
    /\ ret.op \in {"get", "pop"} =>
           /\ ret.exc = "none"
           /\ ret.items = <<str(Len(putLog))>>
    /\ ret.op \in {"pop", "remove"} =>
           /\ Count(db) = 0
           /\ deqLog = putLog

\* C9 witness: the last of the CycleLen iterations consumed its item by pop,
\* earlier ones by get and remove.
C9_Witness ==
    /\ ret.op = "pop"
    /\ Len(putLog) = CycleLen
    /\ Len(popLog) < Len(deqLog)
    /\ Len(popLog) > 1

(***************************************************************************)
(* Two consumers that use get and remove: each calls get(n) and, when it   *)
(* was returned items, remove with the number of items it was returned.    *)
(* got[c] collects what the gets of c returned.                            *)
(***************************************************************************)
TrackedGet(c, n) ==
    /\ GetCall(c, n)
    /\ got' = [got EXCEPT ![c] = @ \cup SeqToSet(get(db, n).items)]

ConsumerGet ==
    \E c \in Consumers, n \in ValidCounts :
        /\ cons[c] \in {NoGet, <<>>}
        /\ TrackedGet(c, n)

ConsumerRemove ==
    \E c \in Consumers :
        /\ cons[c] \notin {NoGet, <<>>}
        /\ Remove(c, Len(cons[c]))

GetRemoveNext == DoPut \/ ConsumerGet \/ ConsumerRemove

SpecGetRemove == Init /\ [][GetRemoveNext]_vars

(***************************************************************************)
(* C10.  get followed by remove is not atomic.  A get of one consumer      *)
(* returns the head item that the get of another consumer has returned     *)
(* and that is still stored; and the remove of a consumer deletes the      *)
(* oldest items stored at that time, which need not be the items its get   *)
(* returned.  The witness is the interleaving the claim speaks of.         *)
(***************************************************************************)
C10_GetStep(c) ==
    \A b \in Consumers \ {c} :
        (cons[b] \notin {NoGet, <<>>} /\ cons[b][1] \in ItemValues(db))
        => (ret'.items # <<>> /\ ret'.items[1] = cons[b][1])

C10_RemoveStep(c) ==
    /\ deqLog' = deqLog \o Take(Pending, Min(Len(cons[c]), Count(db)))
    /\ Take(Pending, 1) # Take(cons[c], 1) => deqLog' # deqLog \o cons[c]

C10_GetRemoveNotAtomic ==
    [][/\ \A c \in Consumers, n \in ValidCounts : TrackedGet(c, n) => C10_GetStep(c)
       /\ \A c \in Consumers :
              (cons[c] \notin {NoGet, <<>>} /\ Remove(c, Len(cons[c])))
              => C10_RemoveStep(c)]_vars

\* C10 witness: an item was returned to both consumers, and an item was
\* deleted by a remove that no get of either consumer had returned.
C10_Witness ==
    /\ got["c1"] \cap got["c2"] # {}
    /\ \E y \in SeqToSet(deqLog) : y \notin (got["c1"] \cup got["c2"])

(***************************************************************************)
(* One consumer that uses get and remove, no caller of pop, and producers  *)
(* whose puts fall anywhere between its calls: the consumer calls get(n)   *)
(* and, when it was returned items, remove with the number of items it was *)
(* returned.                                                               *)
(***************************************************************************)
TheConsumer == "c1"

SingleGet ==
    \E n \in ValidCounts :
        /\ cons[TheConsumer] \in {NoGet, <<>>}
        /\ TrackedGet(TheConsumer, n)

SingleRemove ==
    /\ cons[TheConsumer] \notin {NoGet, <<>>}
    /\ Remove(TheConsumer, Len(cons[TheConsumer]))

SingleConsumerNext == DoPut \/ SingleGet \/ SingleRemove

SpecSingleConsumer == Init /\ [][SingleConsumerNext]_vars

(***************************************************************************)
(* C11.  With one get/remove consumer and no pop, whatever the producers   *)
(* put between its get and its remove: while the consumer holds the k >= 1 *)
(* items its get returned, these are the k oldest items stored, and        *)
(* remove(k) deletes exactly them; the remove step deletes exactly the     *)
(* returned items; and the items deleted are a prefix of the items put,    *)
(* none twice, each one returned by a get of the consumer before.          *)
(***************************************************************************)
C11_WhileHolding ==
    cons[TheConsumer] \notin {NoGet, <<>>} =>
        LET k == Len(cons[TheConsumer])
            r == remove(db, k)
        IN  /\ cons[TheConsumer] = Take(Pending, k)
            /\ cons[TheConsumer] = Take(Contents(db), k)
            /\ r.exc = "none"
            /\ ItemValues(db) \ ItemValues(r.db) = SeqToSet(cons[TheConsumer])
            /\ Contents(r.db) = Drop(Contents(db), k)

C11_RemoveStep ==
    /\ deqLog' = deqLog \o cons[TheConsumer]
    /\ ItemValues(db') = ItemValues(db) \ SeqToSet(cons[TheConsumer])
    /\ Count(db') = Count(db) - Len(cons[TheConsumer])

C11_DeliveredOnce ==
    /\ IsPrefix(deqLog, putLog)
    /\ NoDuplicates(deqLog)
    /\ SeqToSet(deqLog) \subseteq got[TheConsumer]

C11_SingleConsumerRemove ==
    /\ [](C11_WhileHolding /\ C11_DeliveredOnce)
    /\ [][SingleRemove => C11_RemoveStep]_vars

\* C11 witness: a put was admitted while the consumer held the items of its
\* get, after the positions wrapped and after an earlier get and remove of
\* the consumer had deleted items.
C11_Witness ==
    /\ ret.op = "put" /\ ret.exc = "none" /\ ret.items # <<>>
    /\ cons[TheConsumer] \notin {NoGet, <<>>}
    /\ deqLog # <<>>
    /\ Len(putLog) > ITEMS_MAX

(***************************************************************************)
(* Several producers on the shared queue.  The items of producer p begin   *)
(* with the byte p, so that the producer of a stored item can be told; the *)
(* puts of the producers interleave in any order, each one transaction.    *)
(***************************************************************************)
Producers == {"a", "b"}

ProducerBatch(p, k) == [i \in 1..k |-> <<p>> \o str(Len(putLog) + i)]

ProducerPut(p, k) ==
    LET items == ProducerBatch(p, k)
        r == put(db, items)
    IN  /\ r.exc = "none" => Len(putLog) + k <= MaxItems
        /\ db' = r.db
        /\ putLog' = IF r.exc = "none" THEN putLog \o items ELSE putLog
        /\ ret' = Call("put", items, r.exc)
        /\ UNCHANGED <<deqLog, popLog, cons, got>>

DoProducerPut == \E p \in Producers, k \in BatchSizes : ProducerPut(p, k)

ProducersNext == DoProducerPut \/ DoPop

SpecProducers == Init /\ [][ProducersNext]_vars

\* the items of producer p in s, in the order of s
ItemsOf(p, s) == SelectSeq(s, LAMBDA x : x[1] = p)

(***************************************************************************)
(* C12.  Concurrent producers lose nothing.  As long as nothing was        *)
(* dequeued: a put that keeps the total within ITEMS_MAX is admitted and   *)
(* adds its batch behind the items stored, which all stay; the queue holds *)
(* exactly the items put, the items of each producer in the order that     *)
(* producer put them; and a pop asking for the total or more returns       *)
(* exactly the items put.                                                  *)
(***************************************************************************)
C12_AllStored ==
    deqLog = <<>> =>
        /\ Count(db) = Len(putLog)
        /\ Contents(db) = putLog
        /\ \A p \in Producers : ItemsOf(p, Contents(db)) = ItemsOf(p, putLog)

C12_PutStep(p, k) ==
    (deqLog = <<>> /\ k >= 1 /\ Len(putLog) + k <= ITEMS_MAX) =>
        /\ ret'.exc = "none"
        /\ Contents(db') = Contents(db) \o ProducerBatch(p, k)
        /\ \A q \in Producers : ItemsOf(q, Contents(db)) = ItemsOf(q, Take(Contents(db'), Count(db)))

C12_PopStep(n) ==
    (deqLog = <<>> /\ n \in ValidCounts /\ n >= Len(putLog)) =>
        /\ ret'.items = putLog
        /\ Len(ret'.items) = Len(putLog)

TxnAbort(committed, working) == committed

\* What the caller holds after a call that ended without a return statement.
ReturnedNone == << <<"<None>">> >>

\* A failure that leaves the writes of the transaction in the store.
_put_failing_partial(d, items, j) ==
    [db |-> PutLoop(d, _get_last_item_number(d), Take(items, j)).db,
     exc |-> "QueueError"]

\* _put when the store fails: except lmdb.Error raises QueueError.
_put_failing(d, items, j) ==
    LET working == PutLoop(d, _get_last_item_number(d), Take(items, j)).db
    IN  [db |-> TxnAbort(d, working), exc |-> "QueueError"]

\* A failure of _pop that leaves the deletions in the store and returns the
\* items read so far.
_pop_failing_partial(d, items_count, j) ==
    LET w == PopLoop(d, _get_first_item_number(d), Min(j, items_count), <<>>)
    IN  [db |-> w.db, items |-> w.items, exc |-> "none"]

\* _pop when the store fails: except lmdb.Error logs, and the call returns
\* None.
_pop_failing(d, items_count, j) ==
    LET w == PopLoop(d, _get_first_item_number(d), Min(j, items_count), <<>>)
    IN  [db |-> TxnAbort(d, w.db), items |-> ReturnedNone, exc |-> "none"]

\* _get when the store fails: except lmdb.Error logs, and the call returns
\* None.
_get_failing(d, items_count, j) ==
    [db |-> TxnAbort(d, d), items |-> ReturnedNone, exc |-> "none"]

\* A failure of _remove that leaves the deletions in the store.
_remove_failing_partial(d, items_count, j) ==
    [db |-> RemoveLoop(d, _get_first_item_number(d), Min(j, items_count)).db,
     exc |-> "none"]

\* _remove when the store fails: except lmdb.Error logs, and the call
\* returns None as it always does.
_remove_failing(d, items_count, j) ==
    LET w == RemoveLoop(d, _get_first_item_number(d), Min(j, items_count))
    IN  [db |-> TxnAbort(d, w.db), exc |-> "none"]

\* put(items) of k items during which the store fails.  The arguments are
\* valid, and the failure comes before TryLater would be raised.
FailPut(k, j) ==
    LET items == Batch(k)
        r == _put_failing(db, items, j)
    IN  /\ _validate_arg_items(items) = "none"
        /\ j = 0 \/ _permit_put(items, db)
        /\ db' = r.db
        /\ ret' = Call("put", items, r.exc)
        /\ UNCHANGED <<putLog, deqLog, popLog, cons, got>>

\* get(n) of consumer c during which the store fails
FailGet(c, n, j) ==
    LET r == _get_failing(db, n, j)
    IN  /\ db' = r.db
        /\ cons' = [cons EXCEPT ![c] = NoGet]
        /\ ret' = Call("get", r.items, r.exc)
        /\ UNCHANGED <<putLog, deqLog, popLog, got>>

\* remove(n) of consumer c during which the store fails
FailRemove(c, n, j) ==
    LET r == _remove_failing(db, n, j)
    IN  /\ db' = r.db
        /\ deqLog' = deqLog \o InPutOrder(ItemValues(db) \ ItemValues(r.db), putLog)
        /\ cons' = [cons EXCEPT ![c] = NoGet]
        /\ ret' = Call("remove", <<>>, r.exc)
        /\ UNCHANGED <<putLog, popLog, got>>

\* pop(n) during which the store fails
FailPop(n, j) ==
    LET r == _pop_failing(db, n, j)
    IN  /\ db' = r.db
        /\ deqLog' = deqLog \o InPutOrder(ItemValues(db) \ ItemValues(r.db), putLog)
        /\ popLog' = IF r.items = ReturnedNone THEN popLog ELSE popLog \o r.items
        /\ ret' = Call("pop", r.items, r.exc)
        /\ UNCHANGED <<putLog, cons, got>>

DoFailPut == \E k \in ValidCounts, j \in 0..ITEMS_MAX : j <= k /\ FailPut(k, j)

DoFailGet == \E n \in ValidCounts, j \in 0..ITEMS_MAX : j <= n /\ FailGet(TheConsumer, n, j)

DoFailRemove == \E n \in ValidCounts, j \in 0..ITEMS_MAX : j <= n /\ FailRemove(TheConsumer, n, j)

DoFailPop == \E n \in ValidCounts, j \in 0..ITEMS_MAX : j <= n /\ FailPop(n, j)

DoConsumerGet == \E n \in CountArgs : Get(TheConsumer, n)

DoConsumerRemove == \E n \in CountArgs : Remove(TheConsumer, n)

FailNext ==
    \/ DoPut \/ DoConsumerGet \/ DoConsumerRemove \/ DoPop
    \/ DoFailPut \/ DoFailGet \/ DoFailRemove \/ DoFailPop

SpecFail == Init /\ [][FailNext]_vars

FailingCall ==
    \E n \in ValidCounts, j \in 0..ITEMS_MAX :
        j <= n /\ (FailGet(TheConsumer, n, j) \/ FailRemove(TheConsumer, n, j) \/ FailPop(n, j))

(***************************************************************************)
(* C13.  The claim: a get, remove or pop during whose transaction the      *)
(* store fails ends with an exception (StorageFailure, the QueueError of   *)
(* put) and does not return normally.  The code catches lmdb.Error in      *)
(* _get, _remove and _pop, logs it and returns None.                       *)
(***************************************************************************)
C13_FailurePropagates == [][FailingCall => ret'.exc # "none"]_vars

\* C13 witness: a pop on a queue that holds items returned None, without an
\* exception.
C13_Witness ==
    /\ ret.op = "pop" /\ ret.exc = "none" /\ ret.items = ReturnedNone
    /\ Count(db) >= 1

(***************************************************************************)
(* C14.  A storage failure inside the transaction of put, remove or pop,   *)
(* after any number of keys written or deleted in it, leaves the committed *)
(* database as it was before the call; a failed put admits nothing, a      *)
(* failed pop returns no item; and the items stored stay the items put and *)
(* not deleted, each once, oldest first.                                   *)
(***************************************************************************)
C14_FailStep ==
    /\ db' = db
    /\ HeadOf(db') = HeadOf(db) /\ TailOf(db') = TailOf(db)
    /\ putLog' = putLog /\ deqLog' = deqLog /\ popLog' = popLog

C14_NothingLostOrDuplicated ==
    /\ Contents(db) = Pending
    /\ NoDuplicates(putLog)

C14_FailureAborts ==
    /\ [](C14_NothingLostOrDuplicated)
    /\ [][\A n \in ValidCounts, j \in 0..ITEMS_MAX :
            /\ (j <= n /\ FailPut(n, j)) => (C14_FailStep /\ ret'.exc = "QueueError")
            /\ (j <= n /\ FailRemove(TheConsumer, n, j)) => C14_FailStep
            /\ (j <= n /\ FailPop(n, j)) => (C14_FailStep /\ ret'.items = ReturnedNone)]_vars

\* C14 witness: a put the queue had room for failed with QueueError, on a
\* queue that wrapped and holds an item, and the queue still is what the
\* calls before left.
C14_Witness ==
    /\ ret.op = "put" /\ ret.exc = "QueueError" /\ Len(ret.items) = ITEMS_MAX - 1
    /\ Count(db) = 1 /\ Len(putLog) > ITEMS_MAX
    /\ Contents(db) = Pending

(***************************************************************************)
(* Calls with any argument.  A batch of put has one element of any kind    *)
(* (not bytes, or bytes of a length from 0 to ITEM_MAX + 1) among items of *)
(* one byte; the counts of pop run from -1 to ITEMS_MAX + 1, and get and   *)
(* remove are called with the counts that are not valid (the consumers of  *)
(* this specification dequeue by pop).  Payloads stay distinct, so that    *)
(* the logs tell the items apart; ArgMaxItems caps the items admitted.     *)
(***************************************************************************)
ItemKinds == {-1} \cup (0..(ITEM_MAX + 1))

ArgCounts == (-1)..(ITEMS_MAX + 1)

InvalidCounts == {-1, 0, ITEMS_MAX + 1}

ArgMaxItems == ITEMS_MAX

\* the item number id as a payload of L bytes
Payload(id, L) == IF L = 0 THEN <<>> ELSE str(id) \o [i \in 1..(L - 1) |-> "."]

ArgItem(id, kind) == IF kind = -1 THEN NotBytes ELSE Payload(id, kind)

\* a batch of k items whose element at position pos is of the given kind
ArgBatch(k, pos, kind) ==
    [i \in 1..k |-> ArgItem(Len(putLog) + i, IF i = pos THEN kind ELSE 1)]

ArgPut(k, pos, kind) ==
    LET items == ArgBatch(k, pos, kind)
        r == put(db, items)
    IN  /\ r.exc = "none" => (Len(putLog) + k <= ArgMaxItems /\ NoDuplicates(putLog \o items))
        /\ db' = r.db
        /\ putLog' = IF r.exc = "none" THEN putLog \o items ELSE putLog
        /\ ret' = Call("put", items, r.exc)
        /\ UNCHANGED <<deqLog, popLog, cons, got>>

DoArgPut ==
    \E k \in BatchSizes, pos \in 1..(ITEMS_MAX + 1), kind \in ItemKinds :
        (pos <= k \/ (k = 0 /\ pos = 1 /\ kind = 1)) /\ ArgPut(k, pos, kind)

DoArgGet == \E n \in InvalidCounts : Get(TheConsumer, n)

DoArgRemove == \E n \in InvalidCounts : Remove(TheConsumer, n)

DoArgPop == \E n \in ArgCounts : Pop(n)

ArgsNext == DoArgPut \/ DoArgGet \/ DoArgRemove \/ DoArgPop

SpecArgs == Init /\ [][ArgsNext]_vars

InvalidBatch(items) ==
    \/ Len(items) = 0
    \/ Len(items) > ITEMS_MAX
    \/ \E i \in 1..Len(items) : items[i] = NotBytes \/ Len(items[i]) > ITEM_MAX

InvalidCount(n) == n <= 0 \/ n > ITEMS_MAX

(***************************************************************************)
(* C15.  Argument validation precedes every side effect: put with an empty *)
(* batch, a batch longer than ITEMS_MAX, an element that is not bytes or   *)
(* an item longer than ITEM_MAX, and get, remove and pop with a count <= 0 *)
(* or > ITEMS_MAX, raise ArgumentError and leave the database, with head,  *)
(* tail and all keys, and what the callers hold unchanged.                 *)
(***************************************************************************)
C15_Rejected ==
    /\ ret'.exc = "ArgumentError"
    /\ db' = db
    /\ HeadOf(db') = HeadOf(db) /\ TailOf(db') = TailOf(db)
    /\ ItemKeys(db') = ItemKeys(db)
    /\ UNCHANGED <<putLog, deqLog, popLog, cons>>

C15_ValidationFirst ==
    [][/\ (ret'.op = "put" /\ ret' # ret /\ InvalidBatch(ret'.items)) => C15_Rejected
       /\ \A n \in InvalidCounts :
            (Get(TheConsumer, n) \/ Remove(TheConsumer, n) \/ Pop(n)) => C15_Rejected]_vars

\* C15 witness: a put whose second element is not bytes was rejected on a
\* queue that holds an item and whose head has advanced.
C15_Witness ==
    /\ ret.op = "put" /\ ret.exc = "ArgumentError"
    /\ Len(ret.items) = 2 /\ ret.items[2] = NotBytes
    /\ Count(db) >= 1 /\ HeadOf(db) # 0

(***************************************************************************)
(* C17.  The claim: every item stored has a length from 1 to ITEM_MAX.     *)
(* put checks len(i) <= ITEM_MAX and nothing else about the length, so an  *)
(* item of no bytes is admitted.                                           *)
(***************************************************************************)
C17_LengthFromOne ==
    \A v \in ItemValues(db) : 1 <= Len(v) /\ Len(v) <= ITEM_MAX

\* C17 as it holds: every item stored is bytes of a length from 0 to
\* ITEM_MAX, and is an item that was put.
C17_LengthAtMostItemMax ==
    \A v \in ItemValues(db) :
        /\ IsBytes(v)
        /\ 0 <= Len(v) /\ Len(v) <= ITEM_MAX
        /\ v \in SeqToSet(putLog)

\* C17 witness: the queue holds an item of no bytes and an item of ITEM_MAX
\* bytes.
C17_Witness ==
    /\ \E v \in ItemValues(db) : Len(v) = 0
    /\ \E v \in ItemValues(db) : Len(v) = ITEM_MAX

\* the keys of the n positions from position p on, around the end
Run(p, n) == {_make_db_key((p + i) % ITEMS_MAX) : i \in 0..(n - 1)}

(***************************************************************************)
(* C16.  Contiguity: in every state reachable by put, get, remove and pop  *)
(* of any callers, two uncoordinated get/remove consumers among them, the  *)
(* stored item keys are exactly the keys of the positions head, head + 1,  *)
(* ..., head + count - 1 (mod ITEMS_MAX), count being the number of item   *)
(* keys stored: no gap, and no item outside the run.                       *)
(***************************************************************************)
C16_Contiguous == ItemKeys(db) = Run(HeadOf(db), Count(db))

\* C16 witness: both consumers hold the result of a get, items were deleted,
\* and the run of a full queue goes around the end.
C16_Witness ==
    /\ \A c \in Consumers : cons[c] \notin {NoGet, <<>>}
    /\ deqLog # <<>> /\ Len(popLog) < Len(deqLog)
    /\ Count(db) = ITEMS_MAX /\ HeadOf(db) # 0

(***************************************************************************)
(* C18.  pop is get and remove in one transaction: in every reachable      *)
(* state and for every valid n, pop(n) returns what get(n) returns, and    *)
(* leaves the database (head, tail, item keys and values) that get(n)      *)
(* followed by remove(n) leaves.                                           *)
(***************************************************************************)
C18_PopIsGetThenRemove ==
    \A n \in ValidCounts :
        LET p == pop(db, n)
            g == get(db, n)
            r == remove(g.db, n)
        IN  /\ p.exc = "none" /\ g.exc = "none" /\ r.exc = "none"
            /\ p.items = g.items
            /\ p.db = r.db
            /\ HeadOf(p.db) = HeadOf(r.db) /\ TailOf(p.db) = TailOf(r.db)
            /\ ItemKeys(p.db) = ItemKeys(r.db)

\* C18 witness: a pop returned items of a queue whose positions wrapped, and
\* the queue still holds an item, fewer than a pop may ask for.
C18_Witness ==
    /\ ret.op = "pop" /\ ret.exc = "none" /\ ret.items # <<>>
    /\ Count(db) = 1 /\ Len(putLog) > ITEMS_MAX

\* current_items_count of _permit_put
LiveCount(d) ==
    StatEntries(d)
    - (IF TxnGet(d, START_KEY, None) # None THEN 1 ELSE 0)
    - (IF TxnGet(d, END_KEY, None) # None THEN 1 ELSE 0)

\* the keys an item can be stored under
PositionKeys == {_make_db_key(p) : p \in 0..(ITEMS_MAX - 1)}

(***************************************************************************)
(* C19.  The live count of the capacity guard is exact whichever reserved  *)
(* keys exist: in every reachable state the entries of the store less the  *)
(* reserved keys present are the item keys stored, as many as the items    *)
(* put and not deleted; and a queue that holds no item admits a batch of   *)
(* ITEMS_MAX items.                                                        *)
(***************************************************************************)
C19_LiveCountExact ==
    /\ {START_KEY, END_KEY} \cap PositionKeys = {}
    /\ LiveCount(db) = Cardinality((DOMAIN db) \cap PositionKeys)
    /\ LiveCount(db) = Len(Pending)
    /\ LiveCount(db) = 0 =>
          /\ _permit_put([i \in 1..ITEMS_MAX |-> str(i)], db)
          /\ put(db, Batch(ITEMS_MAX)).exc = "none"

\* C19 witness: a remove or pop ran on a queue nothing was put to: of the
\* reserved keys the store holds that of the head only.
C19_Witness ==
    /\ START_KEY \in DOMAIN db /\ END_KEY \notin DOMAIN db
    /\ StatEntries(db) = 1 /\ Count(db) = 0

(***************************************************************************)
(* C20.  Pointer consistency: in every reachable state tail = (head +      *)
(* count) mod ITEMS_MAX, count being the number of item keys stored; so    *)
(* head = tail exactly when the queue is empty or holds ITEMS_MAX items.   *)
(***************************************************************************)
C20_PointerConsistency ==
    /\ TailOf(db) = (HeadOf(db) + Count(db)) % ITEMS_MAX
    /\ HeadOf(db) = TailOf(db) <=> Count(db) \in {0, ITEMS_MAX}

\* C20 witness: a put filled the queue after the positions wrapped, head
\* and tail meeting away from position 0.
C20_Witness ==
    /\ ret.op = "put" /\ ret.exc = "none"
    /\ Count(db) = ITEMS_MAX
    /\ HeadOf(db) = TailOf(db) /\ HeadOf(db) # 0

(***************************************************************************)
(* C21.  No overwrite: in every reachable state, before and after the      *)
(* positions wrapped, the keys an admitted put of any valid size writes    *)
(* are absent from the store before the put, the put writes these keys and *)
(* no other item key, and every item stored before the put is stored       *)
(* after it under its key with its value.                                  *)
(***************************************************************************)
C21_NoOverwrite ==
    \A k \in ValidCounts :
        LET r == put(db, Batch(k))
        IN  r.exc = "none" =>
                /\ Run(TailOf(db), k) \cap (DOMAIN db) = {}
                /\ ItemKeys(r.db) \ ItemKeys(db) = Run(TailOf(db), k)
                /\ Cardinality(Run(TailOf(db), k)) = k
                /\ \A key \in ItemKeys(db) : key \in ItemKeys(r.db) /\ r.db[key] = db[key]

\* C21 witness: a put was admitted after the positions wrapped, into a
\* queue that held an item put before and not yet deleted, which is stored
\* still; the items of the put lie around the end of the positions.
C21_Witness ==
    /\ ret.op = "put" /\ ret.exc = "none" /\ ret.items # <<>>
    /\ Len(putLog) > ITEMS_MAX
    /\ Count(db) > Len(ret.items)
    /\ Contents(db) = Pending
    /\ TailOf(db) <= HeadOf(db)

(***************************************************************************)
(* One consumer that asks for AskCount items at a time and removes as many *)
(* as it asked for: it calls get(AskCount) and, when it was returned       *)
(* items, remove(AskCount), whatever the number of items returned.  The    *)
(* puts of the producers fall anywhere between its calls; nobody pops.     *)
(***************************************************************************)
AskCount == ITEMS_MAX

AskGet ==
    /\ cons[TheConsumer] \in {NoGet, <<>>}
    /\ TrackedGet(TheConsumer, AskCount)

AskRemove ==
    /\ cons[TheConsumer] \notin {NoGet, <<>>}
    /\ Remove(TheConsumer, AskCount)

SameCountNext == DoPut \/ AskGet \/ AskRemove

SpecSameCount == Init /\ [][SameCountNext]_vars

(***************************************************************************)
(* C22.  Over-removal with a single consumer.  When get(n) returned k < n  *)
(* items and the consumer calls remove(n): the remove deletes the          *)
(* min(n, count) oldest items stored at that time, first the k items       *)
(* returned, then the items put since, at most n - k of them, none of      *)
(* which a get has returned; whereas remove(k) in that state deletes the   *)
(* returned items and no other.  The witness is a behaviour in which an    *)
(* item is deleted that no get returned.                                   *)
(***************************************************************************)
C22_RemoveStep ==
    LET k == Len(cons[TheConsumer])
        deleted == Take(Pending, Min(AskCount, Count(db)))
    IN  /\ deqLog' = deqLog \o deleted
        /\ Take(deleted, k) = cons[TheConsumer]
        /\ k <= Len(deleted) /\ Len(deleted) <= AskCount
        /\ Count(db') = Count(db) - Len(deleted)
        /\ \A i \in (k + 1)..Len(deleted) : deleted[i] \notin got[TheConsumer]

C22_RemoveReturned ==
    cons[TheConsumer] \notin {NoGet, <<>>} =>
        LET k == Len(cons[TheConsumer])
        IN  /\ k <= AskCount
            /\ cons[TheConsumer] = Take(Pending, k)
            /\ ItemValues(db) \ ItemValues(remove(db, k).db) = SeqToSet(cons[TheConsumer])

C22_OverRemoval ==
    /\ [](C22_RemoveReturned)
    /\ [][AskRemove => C22_RemoveStep]_vars

\* C22 witness: the remove of the only consumer deleted an item that no get
\* had returned.
C22_Witness ==
    /\ ret.op = "remove" /\ ret.exc = "none"
    /\ \E y \in SeqToSet(deqLog) : y \notin got[TheConsumer]

====
